---- MODULE Spec2Model ----
(***************************************************************************)
(* Model of omertuc/bud, src/main.rs: the Buddhabrot renderer.             *)
(*                                                                         *)
(* main -> generate_channel spawns num_cores threads that each run         *)
(* generate(r, g, b) on three shared grids of AtomicU16, joins them,       *)
(* normalizes the three grids in place and hands them to pixels_to_png.    *)
(*                                                                         *)
(* f64 values are modelled as fixed-point numbers: an integer n stands     *)
(* for the real n / SCALE, and a product is rounded to the nearest         *)
(* lattice point as an f64 product is rounded to the nearest f64.  The     *)
(* program's size constants (screen, iteration caps, POINTS, num_cores)    *)
(* keep their names and their order relations at reduced values.           *)
(***************************************************************************)
EXTENDS Integers, Sequences, FiniteSets, TLC

\* ------------------------------------------------------------ constants

\* Lattice units per 1.0 of the complex plane (the resolution of the
\* fixed-point stand-in for f64).
SCALE == 4

\* rng.gen::<f64>() is uniform over [0, 1): the model draws k / RNG_LEVELS
\* for k in 0 .. RNG_LEVELS - 1.
RNG_LEVELS == 4

\* 2560 in the source.
SCREEN_WIDTH == 4

\* 1440 in the source.
SCREEN_HEIGHT == 2

\* 20000, 10000 and 5000 in the source: R > G + 1, G > B + 1, B > 1.
ITERATIONS_R == 5

ITERATIONS_G == 3

ITERATIONS_B == 2

\* Samples per thread; 10,000,000 in the source.
POINTS == 1

\* Threads spawned; 32 in the source.
NUM_CORES == 2

\* AtomicU16: counters are integers modulo 2^16.
U16_MOD == 65536

\* `as u8` in pixels_to_png keeps the value modulo 2^8.
U8_MOD == 256

\* 4.3 in the source; 4.0 here so that the pixel size falls on the lattice.
COMPLEX_PLANE_VIEW_WIDTH == 4 * SCALE

COMPLEX_PLANE_VIEW_HEIGHT ==
    (SCREEN_HEIGHT * COMPLEX_PLANE_VIEW_WIDTH) \div SCREEN_WIDTH

\* 0.5
PAN_RIGHT == SCALE \div 2

TOP_LEFT ==
    [re |-> (0 - (COMPLEX_PLANE_VIEW_WIDTH \div 2)) - PAN_RIGHT,
     im |-> COMPLEX_PLANE_VIEW_HEIGHT \div 2]

PIXEL_WIDTH == COMPLEX_PLANE_VIEW_WIDTH \div SCREEN_WIDTH

PIXEL_HEIGHT == PIXEL_WIDTH

\* The escape threshold 4.0 of z.abssq() > 4.0, in squared lattice units.
ESCAPE_SQ == 4 * SCALE * SCALE

Workers == 1 .. NUM_CORES

Rows == 0 .. (SCREEN_HEIGHT - 1)

Cols == 0 .. (SCREEN_WIDTH - 1)

Min(a, b) == IF a < b THEN a ELSE b

\* Rounding of an exact quotient n / d (d > 0) to the nearest integer.
RoundDiv(n, d) == ((2 * n) + d) \div (2 * d)

\* ------------------------------------------------------------ Complex

add(a, b) == [re |-> a.re + b.re, im |-> a.im + b.im]

mul(a, b) ==
    [re |-> RoundDiv((a.re * b.re) - (a.im * b.im), SCALE),
     im |-> RoundDiv((a.re * b.im) + (a.im * b.re), SCALE)]

square(a) == mul(a, a)

\* Mutant of abssq: the imaginary part is left out.
abssq_re_only(a) == a.re * a.re

\* In squared lattice units (SCALE * SCALE per 1.0).
abssq(a) == (a.re * a.re) + (a.im * a.im)

\* ------------------------------------------------------------ get_pixel

\* Option<Pixel>: << >> is None, << p >> is Some(p).
get_pixel(c) ==
    IF \/ c.re < TOP_LEFT.re
       \/ c.re > TOP_LEFT.re + COMPLEX_PLANE_VIEW_WIDTH
       \/ c.im > TOP_LEFT.im
       \/ c.im < TOP_LEFT.im - COMPLEX_PLANE_VIEW_HEIGHT
    THEN << >>
    ELSE << [x |-> (c.re - TOP_LEFT.re) \div PIXEL_WIDTH,
             y |-> (TOP_LEFT.im - c.im) \div PIXEL_HEIGHT] >>

\* Vec indexing r[pixel.y][pixel.x] panics unless both indices are in range.
IndexInBounds(pixel) == pixel.y \in Rows /\ pixel.x \in Cols

\* ------------------------------------------------------------ generate: one sample

\* The random sample of lines 125-128, from the two rng draws ku, kv
\* (u = ku / RNG_LEVELS, v = kv / RNG_LEVELS, both in [0, 1)).
SampleOf(ku, kv) ==
    [re |-> ((ku * COMPLEX_PLANE_VIEW_WIDTH) \div RNG_LEVELS) + TOP_LEFT.re,
     im |-> TOP_LEFT.im - ((kv * COMPLEX_PLANE_VIEW_HEIGHT) \div RNG_LEVELS)]

\* i > ITERATIONS_G of line 138: should_green is cleared from this index on.
GreenCutoff(i) == i > ITERATIONS_G

\* Mutant of BlueCutoff: blue is cut off at the red cap.
BlueCutoff_AtRedCap(i) == i > ITERATIONS_R

\* i > ITERATIONS_B of line 142.
BlueCutoff(i) == i > ITERATIONS_B

\* The inner loop `for i in 0..ITERATIONS_R` of lines 137-182, up to the
\* point where it either breaks (escaped) or runs out of iterations.  It
\* touches only the thread's locals.
RECURSIVE Iterate(_, _, _, _, _, _)
Iterate(c, i, z, visited, should_green, should_blue) ==
    IF i >= ITERATIONS_R
    THEN [escaped |-> FALSE, visited |-> visited,
          should_green |-> should_green, should_blue |-> should_blue]
    ELSE LET sg == IF GreenCutoff(i) THEN FALSE ELSE should_green
             sb == IF BlueCutoff(i) THEN FALSE ELSE should_blue
             zn == add(square(z), c)
             vs == Append(visited, zn)
         IN  IF abssq(zn) > ESCAPE_SQ
             THEN [escaped |-> TRUE, visited |-> vs,
                   should_green |-> sg, should_blue |-> sb]
             ELSE Iterate(c, i + 1, zn, vs, sg, sb)

Trajectory(c) == Iterate(c, 0, [re |-> 0, im |-> 0], << >>, TRUE, TRUE)

\* ------------------------------------------------------------ state

VARIABLES
    r, g, b,      \* the three BuddhabrotChannel grids, indexed [y][x]
    worker,       \* per thread: its position in generate and its locals
    mpc,          \* the main thread's position in generate_channel / main
    threads,      \* number of threads spawned so far (line 239)
    joined,       \* number of threads joined so far (line 248)
    image,        \* the ImageBuffer pixels_to_png fills; << >> before
    incs,         \* history: fetch_add calls performed per channel and cell
    drawn,        \* history: the samples each worker has drawn, in order
    raw,          \* history: the grids as they were when the join returned
    normalized,   \* history: the channels whose normalize has returned
    divzero       \* history: the channels whose normalize divided by a zero max

vars ==
    <<r, g, b, worker, mpc, threads, joined, image, incs, drawn, raw,
      normalized, divzero>>

ZeroGrid == [y \in Rows |-> [x \in Cols |-> 0]]

Origin == [re |-> 0, im |-> 0]

\* A thread that has not been spawned yet.
IdleWorker ==
    [pc |-> "idle", i |-> 0, c |-> Origin, visited |-> << >>,
     escaped |-> FALSE, should_green |-> TRUE, should_blue |-> TRUE,
     nr |-> 0, ng |-> 0, nb |-> 0]

\* Lines 217-237: every counter is AtomicU16::new(0).
Init ==
    /\ r = ZeroGrid
    /\ g = ZeroGrid
    /\ b = ZeroGrid
    /\ worker = [w \in Workers |-> IdleWorker]
    /\ mpc = "spawn"
    /\ threads = 0
    /\ joined = 0
    /\ image = << >>
    /\ incs = [r |-> ZeroGrid, g |-> ZeroGrid, b |-> ZeroGrid]
    /\ drawn = [w \in Workers |-> << >>]
    /\ raw = [r |-> ZeroGrid, g |-> ZeroGrid, b |-> ZeroGrid]
    /\ normalized = {}
    /\ divzero = {}

\* ------------------------------------------------------------ generate: the worker

\* Threads that are inside one of the three deposit loops.
Depositing == {w \in Workers : worker[w].pc \in {"red", "green", "blue"}}

\* Mutant of fetch_add: a plain load-add-store, whose update is lost when
\* another thread is depositing at the same time.
fetch_add_racy(value) ==
    IF Cardinality(Depositing) > 1 THEN value ELSE (value + 1) % U16_MOD

\* AtomicU16::fetch_add(1, Relaxed): one atomic read-modify-write, wrapping.
fetch_add(value) == (value + 1) % U16_MOD

\* The process is alive: once the main thread has panicked the process
\* exits and no thread takes another step.
Running == mpc # "panicked"

\* Mutant of EscapeBranch: the deposit block runs for every sample.
EscapeBranch_Always(t) == TRUE

\* Line 151: the deposit block runs only for a trajectory that escaped.
EscapeBranch(t) == t.escaped

\* Mutant of NextSample: the range of the sample loop is inclusive.
NextSample_Inclusive(me) ==
    [me EXCEPT !.i = @ + 1,
               !.pc = IF me.i + 1 <= POINTS THEN "loop" ELSE "done"]

\* End of the body of `for i in 0..POINTS` (line 119): the next sample, or
\* return from generate.
NextSample(me) ==
    [me EXCEPT !.i = @ + 1,
               !.pc = IF me.i + 1 < POINTS THEN "loop" ELSE "done"]

\* Lines 170-180: the blue block, then break.
AfterGreen(me) ==
    IF me.should_blue THEN [me EXCEPT !.pc = "blue"] ELSE NextSample(me)

\* Lines 160-168: the green block.
AfterRed(me) ==
    IF me.should_green THEN [me EXCEPT !.pc = "green"] ELSE AfterGreen(me)

\* visited.iter() of line 152.
RedLimit(me) == Len(me.visited)

\* visited.iter().take(ITERATIONS_G) of line 161.
GreenLimit(me) == Min(Len(me.visited), ITERATIONS_G)

\* visited.iter().take(ITERATIONS_B) of line 171.
BlueLimit(me) == Min(Len(me.visited), ITERATIONS_B)

\* Lines 119-150: draw a sample and run the inner loop on the locals.
Draw(w) ==
    /\ Running
    /\ worker[w].pc = "loop"
    /\ \E ku \in 0 .. (RNG_LEVELS - 1), kv \in 0 .. (RNG_LEVELS - 1) :
          LET c == SampleOf(ku, kv)
              t == Trajectory(c)
              me == [worker[w] EXCEPT
                        !.c = c, !.visited = t.visited,
                        !.escaped = t.escaped,
                        !.should_green = t.should_green,
                        !.should_blue = t.should_blue,
                        !.nr = 0, !.ng = 0, !.nb = 0]
          IN  /\ worker' = [worker EXCEPT ![w] =
                               IF EscapeBranch(t)
                               THEN [me EXCEPT !.pc = "red"]
                               ELSE NextSample(me)]
              /\ drawn' = [drawn EXCEPT ![w] = Append(@, c)]
    /\ UNCHANGED <<r, g, b, mpc, threads, joined, image, incs, raw,
                   normalized, divzero>>

\* One iteration of `for v in visited.iter()`, lines 152-158.
DepositRed(w) ==
    /\ Running
    /\ worker[w].pc = "red"
    /\ LET me == worker[w]
           pixel == get_pixel(me.visited[me.nr + 1])
           nxt == [me EXCEPT !.nr = @ + 1]
           after == IF nxt.nr < RedLimit(me) THEN nxt ELSE AfterRed(nxt)
       IN  IF pixel = << >>
           THEN /\ worker' = [worker EXCEPT ![w] = after]
                /\ UNCHANGED <<r, incs>>
           ELSE IF IndexInBounds(pixel[1])
           THEN /\ r' = [r EXCEPT ![pixel[1].y][pixel[1].x] = fetch_add(@)]
                /\ incs' = [incs EXCEPT !.r[pixel[1].y][pixel[1].x] = @ + 1]
                /\ worker' = [worker EXCEPT ![w] = after]
           ELSE /\ worker' = [worker EXCEPT ![w].pc = "panicked"]
                /\ UNCHANGED <<r, incs>>
    /\ UNCHANGED <<g, b, mpc, threads, joined, image, drawn, raw, normalized, divzero>>

\* One iteration of `for v in visited.iter().take(ITERATIONS_G)`, lines 161-167.
DepositGreen(w) ==
    /\ Running
    /\ worker[w].pc = "green"
    /\ LET me == worker[w]
           pixel == get_pixel(me.visited[me.ng + 1])
           nxt == [me EXCEPT !.ng = @ + 1]
           after == IF nxt.ng < GreenLimit(me) THEN nxt ELSE AfterGreen(nxt)
       IN  IF pixel = << >>
           THEN /\ worker' = [worker EXCEPT ![w] = after]
                /\ UNCHANGED <<g, incs>>
           ELSE IF IndexInBounds(pixel[1])
           THEN /\ g' = [g EXCEPT ![pixel[1].y][pixel[1].x] = fetch_add(@)]
                /\ incs' = [incs EXCEPT !.g[pixel[1].y][pixel[1].x] = @ + 1]
                /\ worker' = [worker EXCEPT ![w] = after]
           ELSE /\ worker' = [worker EXCEPT ![w].pc = "panicked"]
                /\ UNCHANGED <<g, incs>>
    /\ UNCHANGED <<r, b, mpc, threads, joined, image, drawn, raw, normalized, divzero>>

\* One iteration of `for v in visited.iter().take(ITERATIONS_B)`, lines 171-177.
DepositBlue(w) ==
    /\ Running
    /\ worker[w].pc = "blue"
    /\ LET me == worker[w]
           pixel == get_pixel(me.visited[me.nb + 1])
           nxt == [me EXCEPT !.nb = @ + 1]
           after == IF nxt.nb < BlueLimit(me) THEN nxt ELSE NextSample(nxt)
       IN  IF pixel = << >>
           THEN /\ worker' = [worker EXCEPT ![w] = after]
                /\ UNCHANGED <<b, incs>>
           ELSE IF IndexInBounds(pixel[1])
           THEN /\ b' = [b EXCEPT ![pixel[1].y][pixel[1].x] = fetch_add(@)]
                /\ incs' = [incs EXCEPT !.b[pixel[1].y][pixel[1].x] = @ + 1]
                /\ worker' = [worker EXCEPT ![w] = after]
           ELSE /\ worker' = [worker EXCEPT ![w].pc = "panicked"]
                /\ UNCHANGED <<b, incs>>
    /\ UNCHANGED <<r, g, mpc, threads, joined, image, drawn, raw, normalized, divzero>>

\* ------------------------------------------------------------ normalize

\* Lines 192-201: the maximum over all cells, starting from 0.
GridMax(grid) ==
    LET values == {grid[y][x] : y \in Rows, x \in Cols} \cup {0}
    IN  CHOOSE m \in values : \A v \in values : v <= m

\* An f64 produced in normalize: a number num / den (den > 0), or NaN, or
\* +infinity.
F64Num(num, den) == [kind |-> "num", num |-> num, den |-> den]

F64NaN == [kind |-> "nan", num |-> 0, den |-> 1]

F64Inf == [kind |-> "inf", num |-> 0, den |-> 1]

\* value as f64 / max as f64 of line 206, for u16 operands: 0.0 / 0.0 is
\* NaN and a positive value over 0.0 is +infinity.
F64Div(value, max) ==
    IF max # 0 THEN F64Num(value, max)
    ELSE IF value = 0 THEN F64NaN ELSE F64Inf

\* (...) * 255.0 of line 206: NaN and +infinity stay what they are.
F64Times255(q) ==
    IF q.kind = "num" THEN F64Num(q.num * 255, q.den) ELSE q

\* Mutant of AsU16: the cast rounds to the nearest integer.
AsU16_Nearest(q) ==
    IF q.kind = "nan" THEN 0
    ELSE IF q.kind = "inf" THEN U16_MOD - 1
    ELSE Min(RoundDiv(q.num, q.den), U16_MOD - 1)

\* `as u16` of line 206 on a non-negative f64: truncation toward zero,
\* saturating at u16::MAX; NaN becomes 0.
AsU16(q) ==
    IF q.kind = "nan" THEN 0
    ELSE IF q.kind = "inf" THEN U16_MOD - 1
    ELSE Min(q.num \div q.den, U16_MOD - 1)

\* Mutant of NormValue: scaled by 256 instead of 255.
NormValue_Scale256(value, max) ==
    IF max = 0 THEN 0 ELSE (value * 256) \div max

\* Line 206: ((value as f64 / max as f64) * 255.0) as u16.  There is no
\* test of max: the division is evaluated for every cell.  For
\* 0 <= value <= max <= 65535, max > 0, the f64 result, rounded twice,
\* truncates to the same integer as the exact quotient value * 255 / max.
NormValue(value, max) == AsU16(F64Times255(F64Div(value, max)))

\* normalize on this grid evaluates a division by a zero maximum.
DividesByZero(grid) ==
    \E y \in Rows, x \in Cols : F64Div(grid[y][x], GridMax(grid)).kind # "num"

\* Mutant of normalize: the rescaled values go to a copy that is dropped and
\* the grid keeps its counts.
normalize_copy(grid) == grid

\* Lines 191-209: both passes; the stores go to the grid itself.
normalize(grid) ==
    LET max == GridMax(grid)
    IN  [y \in Rows |-> [x \in Cols |-> NormValue(grid[y][x], max)]]

\* ------------------------------------------------------------ generate_channel, main

\* Lines 239-246: one thread::spawn; after the last one the loop ends.
Spawn ==
    /\ mpc = "spawn"
    /\ threads < NUM_CORES
    /\ worker' = [worker EXCEPT ![threads + 1].pc = "loop"]
    /\ threads' = threads + 1
    /\ mpc' = IF threads + 1 = NUM_CORES THEN "join" ELSE "spawn"
    /\ UNCHANGED <<r, g, b, joined, image, incs, drawn, raw, normalized, divzero>>

\* Mutant of JoinReturns: the join does not wait for the thread.
JoinReturns_NoWait(t) == TRUE

\* t.join() returns once thread t has terminated, by return or by panic.
JoinReturns(t) == worker[t].pc \in {"done", "panicked"}

\* Mutant of JoinFailed: the result of join() is discarded.
JoinFailed_Ignored(t) == FALSE

\* t.join() is Err exactly when thread t panicked.
JoinFailed(t) == worker[t].pc = "panicked"

\* Line 248: threads are joined in spawn order; join() of a panicked
\* thread is Err and unwrap() panics the main thread.
Join ==
    /\ mpc = "join"
    /\ joined < NUM_CORES
    /\ JoinReturns(joined + 1)
    /\ IF JoinFailed(joined + 1)
       THEN /\ mpc' = "panicked"
            /\ UNCHANGED <<joined, raw>>
       ELSE /\ joined' = joined + 1
            /\ mpc' = IF joined + 1 = NUM_CORES THEN "norm_r" ELSE "join"
            /\ raw' = IF joined + 1 = NUM_CORES
                      THEN [r |-> r, g |-> g, b |-> b]
                      ELSE raw
    /\ UNCHANGED <<r, g, b, worker, threads, image, incs, drawn, normalized, divzero>>

\* Line 251.
NormalizeRed ==
    /\ mpc = "norm_r"
    /\ r' = normalize(r)
    /\ normalized' = normalized \cup {"r"}
    /\ divzero' = IF DividesByZero(r) THEN divzero \cup {"r"} ELSE divzero
    /\ mpc' = "norm_g"
    /\ UNCHANGED <<g, b, worker, threads, joined, image, incs, drawn, raw>>

\* Line 253.
NormalizeGreen ==
    /\ mpc = "norm_g"
    /\ g' = normalize(g)
    /\ normalized' = normalized \cup {"g"}
    /\ divzero' = IF DividesByZero(g) THEN divzero \cup {"g"} ELSE divzero
    /\ mpc' = "norm_b"
    /\ UNCHANGED <<r, b, worker, threads, joined, image, incs, drawn, raw>>

\* Line 255; generate_channel then returns to main.
NormalizeBlue ==
    /\ mpc = "norm_b"
    /\ b' = normalize(b)
    /\ normalized' = normalized \cup {"b"}
    /\ divzero' = IF DividesByZero(b) THEN divzero \cup {"b"} ELSE divzero
    /\ mpc' = "png"
    /\ UNCHANGED <<r, g, worker, threads, joined, image, incs, drawn, raw>>

\* `as u8` of lines 101-103.
AsU8(value) == value % U8_MOD

\* Lines 93-107: every cell of the three grids is loaded and cast to u8.
pixels_to_png ==
    /\ mpc = "png"
    /\ image' = [y \in Rows |-> [x \in Cols |->
                    <<AsU8(r[y][x]), AsU8(g[y][x]), AsU8(b[y][x])>>]]
    /\ mpc' = "done"
    /\ UNCHANGED <<r, g, b, worker, threads, joined, incs, drawn, raw,
                   normalized, divzero>>

\* ------------------------------------------------------------ specifications

Next ==
    \/ Spawn
    \/ \E w \in Workers : Draw(w)
    \/ \E w \in Workers : DepositRed(w)
    \/ \E w \in Workers : DepositGreen(w)
    \/ \E w \in Workers : DepositBlue(w)
    \/ Join
    \/ NormalizeRed
    \/ NormalizeGreen
    \/ NormalizeBlue
    \/ pixels_to_png

\* The program from its start.
Spec == Init /\ [][Next]_vars

\* A pass in progress.  Every sample drawn at TOP_LEFT escapes at its first
\* iteration and adds one to cell [0][0] of all three grids, so after h such
\* samples that cell holds h in r, g and b.  POINTS then counts the samples
\* each thread still has to draw.
LATE_COUNTS == {U16_MOD - 2, U16_MOD - 1}

LateGrid(h) == [ZeroGrid EXCEPT ![0][0] = h]

InitLate ==
    /\ \E h \in LATE_COUNTS :
          /\ r = LateGrid(h)
          /\ g = LateGrid(h)
          /\ b = LateGrid(h)
          /\ incs = [r |-> LateGrid(h), g |-> LateGrid(h), b |-> LateGrid(h)]
    /\ worker = [w \in Workers |-> IdleWorker]
    /\ mpc = "spawn"
    /\ threads = 0
    /\ joined = 0
    /\ image = << >>
    /\ drawn = [w \in Workers |-> << >>]
    /\ raw = [r |-> ZeroGrid, g |-> ZeroGrid, b |-> ZeroGrid]
    /\ normalized = {}
    /\ divzero = {}

SpecLate == InitLate /\ [][Next]_vars

\* What one worker thread can do next, and what the main thread can do next.
WorkerStep(w) == Draw(w) \/ DepositRed(w) \/ DepositGreen(w) \/ DepositBlue(w)

MainStep ==
    \/ Spawn
    \/ Join
    \/ NormalizeRed
    \/ NormalizeGreen
    \/ NormalizeBlue
    \/ pixels_to_png

\* The workers and the main thread are operating-system threads: a thread
\* that can run is eventually run.
Fairness ==
    /\ WF_vars(MainStep)
    /\ \A w \in Workers : WF_vars(WorkerStep(w))

\* The program from its start, under fair scheduling of its threads.
SpecFair == Init /\ [][Next]_vars /\ Fairness

\* ------------------------------------------------------------ shared vocabulary of the properties

Caps == [r |-> ITERATIONS_R, g |-> ITERATIONS_G, b |-> ITERATIONS_B]

\* The accumulation phase: thread spawn up to the return of the last join.
Accumulating == mpc \in {"spawn", "join"}

\* The join has returned for every thread.
JoinDone == joined = NUM_CORES

\* Worker w has run the body of the sample loop to its end at least once;
\* its locals are those of the last sample it completed.
SampleCompleted(w) == worker[w].pc \in {"loop", "done"} /\ worker[w].i > 0

\* Number of trajectory points worker w has taken through each channel's
\* deposit loop for its current sample.
Handled(w) == [r |-> worker[w].nr, g |-> worker[w].ng, b |-> worker[w].nb]

\* The viewport rectangle as the specification states it: half-open,
\* [left, left + width) by (top - height, top].
InHalfOpenViewport(c) ==
    /\ TOP_LEFT.re <= c.re
    /\ c.re < TOP_LEFT.re + COMPLEX_PLANE_VIEW_WIDTH
    /\ TOP_LEFT.im - COMPLEX_PLANE_VIEW_HEIGHT < c.im
    /\ c.im <= TOP_LEFT.im

\* ------------------------------------------------------------ C1

\* C1: no increment is lost.  When all workers have returned and no grid
\* has been normalized yet, every cell of every channel holds exactly the
\* number of fetch_add(1) calls made on it (N workers with K calls each
\* on one cell leave N * K in it), whatever the interleaving was.
C1_NoLostIncrement ==
    ((\A w \in Workers : worker[w].pc = "done") /\ mpc \in {"join", "norm_r"})
        => /\ r = incs.r
           /\ g = incs.g
           /\ b = incs.b

\* ------------------------------------------------------------ C2

\* C2: strict phase ordering.  Once normalization has started every worker
\* has returned from generate; a grid not yet normalized still holds what
\* it held when the join returned (no worker increments it any more); and
\* the image is built only from grids whose normalize has returned.
C2_PhaseOrdering ==
    /\ (~Accumulating /\ mpc # "panicked")
          => \A w \in Workers : worker[w].pc = "done"
    /\ (mpc = "norm_r") => (r = raw.r /\ g = raw.g /\ b = raw.b)
    /\ (mpc = "norm_g") => ("r" \in normalized /\ g = raw.g /\ b = raw.b)
    /\ (mpc = "norm_b") => ({"r", "g"} \subseteq normalized /\ b = raw.b)
    /\ (mpc \in {"png", "done"}) => normalized = {"r", "g", "b"}
    /\ (image # << >>) => (mpc = "done" /\ normalized = {"r", "g", "b"})
    /\ (normalized # {}) => JoinDone

\* C2 witness: the image has been written from grids that two workers
\* filled, after both had returned.
C2_Witness ==
    /\ mpc = "done"
    /\ image # << >>
    /\ \A w \in Workers : worker[w].pc = "done" /\ worker[w].escaped
    /\ \E y \in Rows, x \in Cols : raw.r[y][x] > 0

\* ------------------------------------------------------------ C3

\* C3: channel eligibility.  A completed sample whose trajectory escaped at
\* iteration L (1-based) was deposited into channel ch if and only if
\* L <= cap of ch, for red, green and blue, boundaries included.
C3_ChannelEligibility ==
    \A w \in Workers :
        (SampleCompleted(w) /\ worker[w].escaped)
            => \A ch \in {"r", "g", "b"} :
                   (Handled(w)[ch] > 0) <=> (Len(worker[w].visited) <= Caps[ch])

\* ------------------------------------------------------------ C4

\* C4: a channel that received an escaped trajectory of length L received
\* min(L, cap) points of it, and that is the full trajectory of L points:
\* never a proper prefix.
C4_FullTrajectory ==
    \A w \in Workers :
        (SampleCompleted(w) /\ worker[w].escaped)
            => \A ch \in {"r", "g", "b"} :
                   (Handled(w)[ch] > 0)
                       => /\ Handled(w)[ch] = Min(Len(worker[w].visited), Caps[ch])
                          /\ Handled(w)[ch] = Len(worker[w].visited)

\* ------------------------------------------------------------ C5

\* C5: every Pixel get_pixel returns for a trajectory point has
\* 0 <= x < SCREEN_WIDTH and 0 <= y < SCREEN_HEIGHT, so no worker's grid
\* access r[y][x], g[y][x], b[y][x] is out of range.
C5_PixelInRange ==
    \A w \in Workers :
        /\ \A k \in 1 .. Len(worker[w].visited) :
               LET pixel == get_pixel(worker[w].visited[k])
               IN  pixel # << >>
                      => /\ 0 <= pixel[1].x /\ pixel[1].x < SCREEN_WIDTH
                         /\ 0 <= pixel[1].y /\ pixel[1].y < SCREEN_HEIGHT
        /\ worker[w].pc # "panicked"

\* ------------------------------------------------------------ C6

\* C6: get_pixel returns a pixel for a trajectory point exactly when the
\* point lies in the half-open rectangle left <= re < left + width,
\* top - height < im <= top; on the right and bottom edges it returns none.
C6_HalfOpenViewport ==
    \A w \in Workers :
        \A k \in 1 .. Len(worker[w].visited) :
            (get_pixel(worker[w].visited[k]) # << >>)
                <=> InHalfOpenViewport(worker[w].visited[k])

\* ------------------------------------------------------------ C7

\* C7: during the accumulation phase no step makes any counter of any
\* channel smaller.
C7_CountersNeverDecrease ==
    [][(Accumulating /\ Accumulating')
          => \A y \in Rows, x \in Cols :
                 /\ r'[y][x] >= r[y][x]
                 /\ g'[y][x] >= g[y][x]
                 /\ b'[y][x] >= b[y][x]]_vars

\* ------------------------------------------------------------ C8

\* The points of sample c's trajectory that generate takes through the
\* deposit loop of channel ch (lines 151-178), as a function of c alone.
ChannelPoints(c, ch) ==
    LET t == Trajectory(c)
        n == Len(t.visited)
    IN  IF ~t.escaped THEN << >>
        ELSE IF ch = "r" THEN t.visited
        ELSE IF ch = "g"
        THEN (IF t.should_green
              THEN SubSeq(t.visited, 1, Min(n, ITERATIONS_G)) ELSE << >>)
        ELSE (IF t.should_blue
              THEN SubSeq(t.visited, 1, Min(n, ITERATIONS_B)) ELSE << >>)

\* How many of the points map to cell [y][x].
Hits(points, y, x) ==
    Cardinality({k \in 1 .. Len(points) :
                    get_pixel(points[k]) = << [x |-> x, y |-> y] >>})

RECURSIVE SamplesHits(_, _, _, _)
SamplesHits(cs, ch, y, x) ==
    IF cs = << >> THEN 0
    ELSE Hits(ChannelPoints(Head(cs), ch), y, x)
            + SamplesHits(Tail(cs), ch, y, x)

RECURSIVE WorkersHits(_, _, _, _)
WorkersHits(n, ch, y, x) ==
    IF n = 0 THEN 0
    ELSE SamplesHits(drawn[n], ch, y, x) + WorkersHits(n - 1, ch, y, x)

\* The grid of channel ch that results from running the workers one after
\* the other on the samples they drew.
SequentialGrid(ch) ==
    [y \in Rows |-> [x \in Cols |-> WorkersHits(NUM_CORES, ch, y, x) % U16_MOD]]

\* C8: interleaving independence.  When the join has returned, the raw
\* grids are a function of the samples each worker drew: they equal the
\* grids of the sequential run on the same samples, whatever the
\* interleaving of the increments was.
C8_InterleavingIndependence ==
    (mpc = "norm_r")
        => /\ r = SequentialGrid("r") /\ raw.r = r
           /\ g = SequentialGrid("g") /\ raw.g = g
           /\ b = SequentialGrid("b") /\ raw.b = b

\* C8 witness: the join has returned and some cell received increments
\* from both workers.
C8_Witness ==
    /\ mpc = "norm_r"
    /\ \E y \in Rows, x \in Cols :
          /\ raw.r[y][x] >= 2
          /\ \A w \in Workers : SamplesHits(drawn[w], "r", y, x) > 0

\* ------------------------------------------------------------ C9

\* C9: a sample whose trajectory does not escape within ITERATIONS_R
\* iterations increments nothing: its worker never enters a deposit loop
\* for it, and no step of that worker changes any grid.
C9_NonEscapingDepositsNothing ==
    /\ [](\A w \in Workers :
             ~worker[w].escaped
                => /\ worker[w].pc \notin {"red", "green", "blue", "panicked"}
                   /\ Handled(w) = [r |-> 0, g |-> 0, b |-> 0])
    /\ [][\A w \in Workers :
             (worker'[w] # worker[w] /\ ~worker'[w].escaped)
                => (r' = r /\ g' = g /\ b' = b /\ incs' = incs)]_vars

\* C9 witness: a worker has completed a sample that ran all ITERATIONS_R
\* iterations without escaping, while the grids already hold counts.
C9_Witness ==
    \E w \in Workers :
        /\ SampleCompleted(w)
        /\ ~worker[w].escaped
        /\ Len(worker[w].visited) = ITERATIONS_R
        /\ \E y \in Rows, x \in Cols : r[y][x] > 0

\* ------------------------------------------------------------ C10

Grids == [r |-> r, g |-> g, b |-> b]

\* C10: after normalize on a channel whose maximum raw count is M > 0,
\* every cell is in 0 .. 255, every cell whose raw count was M holds 255,
\* and the cast to u8 in pixels_to_png keeps every value.
C10_NormalizedRange ==
    /\ \A ch \in normalized :
          GridMax(raw[ch]) > 0
             => \A y \in Rows, x \in Cols :
                    /\ Grids[ch][y][x] \in 0 .. 255
                    /\ (raw[ch][y][x] = GridMax(raw[ch]))
                          => Grids[ch][y][x] = 255
                    /\ AsU8(Grids[ch][y][x]) = Grids[ch][y][x]
    /\ (image # << >>)
          => \A y \in Rows, x \in Cols :
                 image[y][x] = <<r[y][x], g[y][x], b[y][x]>>

\* C10 witness: the image has been written from a red grid whose raw
\* maximum was above 1 and which holds 255 and a value strictly between.
C10_Witness ==
    /\ image # << >>
    /\ GridMax(raw.r) > 1
    /\ \E y \in Rows, x \in Cols : r[y][x] = 255
    /\ \E y \in Rows, x \in Cols : r[y][x] > 0 /\ r[y][x] < 255

\* The channels, for quantifying over them.
Channels == {"r", "g", "b"}

\* C11 as stated: for a channel whose maximum raw count is max > 0, normalize
\* sets every cell to round(counter / max * 255), the nearest integer of
\* counter * 255 / max and not its floor (a half rounds away from zero, as
\* f64::round does; rounding a half to even gives the same value wherever
\* the model reaches a half).
C11_RoundsToNearest ==
    \A ch \in normalized :
        LET max == GridMax(raw[ch]) IN
            max > 0 =>
                \A y \in Rows, x \in Cols :
                    LET v == Grids[ch][y][x]
                        n == raw[ch][y][x] * 255
                    IN  2 * v * max - max <= 2 * n /\ 2 * n < 2 * v * max + max

\* C11, amended: for a channel whose maximum raw count is max > 0, normalize
\* sets every cell to the floor of counter * 255 / max (the cast truncates
\* toward zero): the stored value v satisfies
\* v * max <= counter * 255 < (v + 1) * max.
C11_Truncates ==
    \A ch \in normalized :
        LET max == GridMax(raw[ch]) IN
            max > 0 =>
                \A y \in Rows, x \in Cols :
                    LET v == Grids[ch][y][x]
                        n == raw[ch][y][x] * 255
                    IN  v * max <= n /\ n < (v + 1) * max

\* A channel has been normalized in which some cell's quotient
\* counter * 255 / max is not an integer, so floor and nearest differ or tie.
C11_Witness ==
    \E ch \in normalized :
        LET max == GridMax(raw[ch]) IN
            /\ max > 0
            /\ \E y \in Rows, x \in Cols : (raw[ch][y][x] * 255) % max # 0

\* C12 as stated: when every counter of a channel is zero (max = 0),
\* normalize produces an all-zero channel, and it does so without ever
\* evaluating a division by the zero maximum.
C12_ZeroMaxGuarded ==
    \A ch \in normalized :
        GridMax(raw[ch]) = 0 => (Grids[ch] = ZeroGrid /\ ch \notin divzero)

\* The pass is over with its result: every worker returned from generate,
\* the three channels are normalized and the image has been encoded.
Completed ==
    /\ \A w \in Workers : worker[w].pc = "done"
    /\ normalized = Channels
    /\ mpc = "done"
    /\ image # << >>

\* C13 as stated: the pass terminates.  Every worker finishes its sample loop,
\* the join returns, the three channels are normalized and handed to the
\* encoder: the program stops only when that is done, and a worker that has
\* not finished can always take its next step, whatever the other workers do.
C13_Terminates ==
    /\ (~ENABLED Next) => Completed
    /\ \A w \in Workers :
          worker[w].pc \in {"loop", "red", "green", "blue"} =>
              ENABLED WorkerStep(w)

\* Under fair scheduling the program stops, with its result or by a panic.
EventuallyStops == <>(mpc \in {"done", "panicked"})

\* Number of samples drawn so far by workers 1 .. n together.
RECURSIVE SamplesDrawn(_)
SamplesDrawn(n) == IF n = 0 THEN 0 ELSE Len(drawn[n]) + SamplesDrawn(n - 1)

\* C14: when the join has returned, each worker has run the body of its
\* sample loop exactly POINTS times, drawing one sample each time (none
\* skipped, none repeated), so the pass has drawn NUM_CORES * POINTS samples:
\* POINTS is a per-worker count, not a total the workers share.
C14_SamplesPerWorker ==
    JoinDone =>
        /\ \A w \in Workers : worker[w].i = POINTS /\ Len(drawn[w]) = POINTS
        /\ SamplesDrawn(NUM_CORES) = NUM_CORES * POINTS

\* The join has returned after every worker deposited an escaped trajectory.
C14_Witness ==
    /\ JoinDone
    /\ \A w \in Workers : worker[w].escaped /\ worker[w].nr = Len(worker[w].visited)

\* Some worker thread has panicked inside generate.
WorkerPanicked == \E w \in Workers : worker[w].pc = "panicked"

\* C15: if a worker thread panics during generate, the main thread fails at
\* the join: no channel is ever normalized and pixels_to_png never runs on
\* the partially filled histograms, and the program does not stop before the
\* failure has reached the main thread.
C15_WorkerFailureIsFatal ==
    WorkerPanicked =>
        /\ mpc \in {"spawn", "join", "panicked"}
        /\ normalized = {}
        /\ image = << >>
        /\ raw = [r |-> ZeroGrid, g |-> ZeroGrid, b |-> ZeroGrid]
        /\ (~ENABLED Next) => mpc = "panicked"

\* The main thread has failed at the join of a panicked worker while the
\* histograms hold the deposits made before the panic.
C15_Witness ==
    /\ WorkerPanicked
    /\ mpc = "panicked"
    /\ \E y \in Rows, x \in Cols : r[y][x] > 0

\* C16 as stated: normalize leaves the raw histogram unchanged: after it
\* returns, every counter of the channel still holds the count it held at
\* the join.
C16_RawUnchanged ==
    \A ch \in normalized : Grids[ch] = raw[ch]

\* C16, amended: normalize stores the rescaled values into the counters of
\* the channel itself.  After it returns, a counter of that channel holds the
\* count it held at the join only where that count equals its own rescaled
\* value; the channels not yet normalized still hold their counts.
C16_StoredInPlace ==
    JoinDone =>
        \A ch \in Channels :
            IF ch \in normalized
            THEN \A y \in Rows, x \in Cols :
                    (Grids[ch][y][x] = raw[ch][y][x])
                        <=> (NormValue(raw[ch][y][x], GridMax(raw[ch]))
                                = raw[ch][y][x])
            ELSE Grids[ch] = raw[ch]

\* A channel that held a non-zero count at the join has been normalized and
\* a cell of it no longer holds its count, while another channel is still
\* waiting to be normalized.
C16_Witness ==
    \E ch \in normalized :
        /\ \E y \in Rows, x \in Cols :
              raw[ch][y][x] > 0 /\ Grids[ch][y][x] # raw[ch][y][x]
        /\ normalized # Channels

\* Sum of the first n cells of a grid in row-major order, and of all of them.
RECURSIVE CellsSum(_, _)
CellsSum(grid, n) ==
    IF n = 0 THEN 0
    ELSE grid[(n - 1) \div SCREEN_WIDTH][(n - 1) % SCREEN_WIDTH]
            + CellsSum(grid, n - 1)

GridSum(grid) == CellsSum(grid, SCREEN_WIDTH * SCREEN_HEIGHT)

\* Worker w has run the inner loop of a sample: visited holds its trajectory.
Iterated(w) == Len(worker[w].visited) > 0

\* The squared magnitude of v is above the escape threshold 4.0.
Escapes(v) == (v.re * v.re) + (v.im * v.im) > ESCAPE_SQ

\* Total length of the escaped trajectories among the samples cs.
RECURSIVE EscapedLength(_)
EscapedLength(cs) ==
    IF cs = << >> THEN 0
    ELSE (IF Trajectory(Head(cs)).escaped
          THEN Len(Trajectory(Head(cs)).visited) ELSE 0)
            + EscapedLength(Tail(cs))

RECURSIVE WorkersEscapedLength(_)
WorkersEscapedLength(n) ==
    IF n = 0 THEN 0
    ELSE EscapedLength(drawn[n]) + WorkersEscapedLength(n - 1)

\* C17: for every sample c the trajectory starts from z = 0 and follows
\* z <- z^2 + c, each new z being recorded and tested after the step.  The
\* iteration stops at the first step whose z has |z|^2 > 4.0: an escaped
\* trajectory has between 1 and ITERATIONS_R points, its last point is the
\* only one above the threshold, and a trajectory that did not escape has
\* ITERATIONS_R points, none above it.  A trajectory is deposited at most
\* once: each deposit loop takes each of its points at most once, and the
\* red increments never exceed the points of the escaped trajectories drawn.
C17_TrajectoryShape ==
    /\ \A w \in Workers :
          Iterated(w) =>
              LET me == worker[w]
                  L == Len(me.visited)
              IN  /\ L \in 1 .. ITERATIONS_R
                  /\ me.visited[1] = add(square(Origin), me.c)
                  /\ \A k \in 1 .. (L - 1) :
                        /\ me.visited[k + 1] = add(square(me.visited[k]), me.c)
                        /\ ~Escapes(me.visited[k])
                  /\ me.escaped <=> Escapes(me.visited[L])
                  /\ ~me.escaped => L = ITERATIONS_R
                  /\ me.nr <= L /\ me.ng <= L /\ me.nb <= L
    /\ GridSum(incs.r) <= WorkersEscapedLength(NUM_CORES)

\* A worker has put all the points of an escaped trajectory of three or
\* more points through the red deposit loop.
C17_Witness ==
    \E w \in Workers :
        /\ worker[w].escaped
        /\ Len(worker[w].visited) >= 3
        /\ worker[w].nr = Len(worker[w].visited)

\* Number of the given points that get_pixel maps to a pixel.
Mapped(points) ==
    Cardinality({k \in 1 .. Len(points) : get_pixel(points[k]) # << >>})

\* The points worker w has taken through the red deposit loop for its
\* current sample.
RedTaken(w) ==
    IF worker[w].escaped
    THEN SubSeq(worker[w].visited, 1, worker[w].nr)
    ELSE << >>

\* The samples worker w drew before its current one.
EarlierSamples(w) ==
    IF drawn[w] = << >> THEN << >> ELSE SubSeq(drawn[w], 1, Len(drawn[w]) - 1)

\* Number of red-loop points of workers 1 .. n, so far, that get_pixel maps
\* to the pixel (x, y).
RECURSIVE RedHitsSoFar(_, _, _)
RedHitsSoFar(n, y, x) ==
    IF n = 0 THEN 0
    ELSE SamplesHits(EarlierSamples(n), "r", y, x) + Hits(RedTaken(n), y, x)
            + RedHitsSoFar(n - 1, y, x)

\* Number of points of the escaped trajectories of the samples cs that
\* get_pixel maps to a pixel.
RECURSIVE SamplesMapped(_)
SamplesMapped(cs) ==
    IF cs = << >> THEN 0
    ELSE Mapped(ChannelPoints(Head(cs), "r")) + SamplesMapped(Tail(cs))

RECURSIVE WorkersMapped(_)
WorkersMapped(n) ==
    IF n = 0 THEN 0 ELSE SamplesMapped(drawn[n]) + WorkersMapped(n - 1)

\* The red increments made so far are one per red-loop point mapped to the
\* cell, and at the join the red counters that have not wrapped sum to the
\* number of mapped points of all the escaped trajectories.
RedConserved ==
    /\ \A y \in Rows, x \in Cols : incs.r[y][x] = RedHitsSoFar(NUM_CORES, y, x)
    /\ (mpc = "norm_r" /\ r = incs.r) => GridSum(r) = WorkersMapped(NUM_CORES)

\* C18 as stated: conservation.  Each escaped trajectory adds to red exactly
\* one increment for each of its points that get_pixel maps to a pixel, at
\* that pixel's cell, and nothing for the other points, which are dropped
\* without aborting the rest of the trajectory; so, as long as no counter has
\* wrapped, the red counters at the join sum to the number of such points
\* over all escaped trajectories of all workers.
C18_Conservation ==
    /\ \A w \in Workers :
          /\ worker[w].pc # "panicked"
          /\ (worker[w].escaped /\ worker[w].pc \in {"green", "blue", "loop", "done"})
                => worker[w].nr = Len(worker[w].visited)
    /\ RedConserved

\* No counter has wrapped: every cell reads the number of increments made.
NoWrap == r = incs.r /\ g = incs.g /\ b = incs.b

\* The accumulation pass, up to the first normalize or the failure of the
\* join: the grids hold raw counts.
RawCounts == mpc \in {"spawn", "join", "norm_r", "panicked"}

\* C19: nesting.  In every state of the accumulation pass, in the middle of
\* a deposit too, as long as no counter has wrapped every pixel has
\* blue <= green <= red.  A trajectory deposited into blue has been deposited
\* into green and red before, and one deposited into green has been
\* deposited into red, each time on a prefix of the points of the wider
\* channel.
C19_Nesting ==
    /\ (RawCounts /\ NoWrap) =>
          \A y \in Rows, x \in Cols : b[y][x] <= g[y][x] /\ g[y][x] <= r[y][x]
    /\ \A w \in Workers :
          LET me == worker[w]
          IN  /\ me.ng > 0 => (me.escaped /\ me.nr = RedLimit(me))
              /\ me.nb > 0 => (me.ng = GreenLimit(me) /\ me.nr = RedLimit(me))
              /\ me.nb <= me.ng /\ me.ng <= me.nr

\* A worker is in the middle of its blue deposit loop, one point done and
\* one to go, and blue holds a count.
C19_Witness ==
    /\ RawCounts
    /\ NoWrap
    /\ \E w \in Workers :
          /\ worker[w].pc = "blue"
          /\ worker[w].nb = 1
          /\ BlueLimit(worker[w]) > 1
    /\ \E y \in Rows, x \in Cols : b[y][x] > 0

====
